---- MODULE Spec2Model ----
(***************************************************************************)
(* Model of src/inference/anthropic.rs: AnthropicInference::query_model.   *)
(*                                                                         *)
(* A call of query_model is a process that walks through the function      *)
(* body; the two .await points (send, text) are the places where the       *)
(* transport answers.  The transport and the tool provider are external:   *)
(* their replies are drawn from finite universes.  A response body is      *)
(* modelled by its JSON structure, and serde's derived Deserialize for     *)
(* AnthropicResponse is the operator from_str below.                       *)
(***************************************************************************)
EXTENDS Integers, Sequences, FiniteSets, TLC

(* ---------------------------------------------------------------------- *)
(* Bounds                                                                  *)
(* ---------------------------------------------------------------------- *)
\* number of concurrent calls in ConcSpec / LiveSpec
NumCalls == 2
\* number of calls in Spec, which draws replies from the full universe
SoloCalls == 1

MaxOf(a, b) == IF a >= b THEN a ELSE b
CallIds == 1..MaxOf(NumCalls, SoloCalls)
SoloIds == 1..SoloCalls
ConcIds == 1..NumCalls

(* ---------------------------------------------------------------------- *)
(* JSON values as they appear in a response body                           *)
(* ---------------------------------------------------------------------- *)
JAbsent == [t |-> "absent", s |-> "", n |-> 0]
JNull   == [t |-> "null", s |-> "", n |-> 0]
JStr(s) == [t |-> "str", s |-> s, n |-> 0]
JInt(n) == [t |-> "int", s |-> "", n |-> n]
\* an integer literal outside the range of i32
JBig    == [t |-> "bigint", s |-> "", n |-> 0]

\* one element of the "content" array: an object {"text": ..}, or the same
\* struct written as an array [..] of its members in declaration order
Item(text)    == [k |-> "obj", text |-> text]
ItemArr(text) == [k |-> "arr", text |-> text]
JArr(items) == [t |-> "arr", items |-> items]
JNoArr(t)   == [t |-> t, items |-> <<>>]

JUsage(i, o, cc, cr) ==
    [t |-> "obj", input_tokens |-> i, output_tokens |-> o,
     cache_creation_input_tokens |-> cc, cache_read_input_tokens |-> cr]
\* usage written as an array: [i, o] and, when present, further elements
JUsageArr(i, o, cc, cr) ==
    [t |-> "arr", input_tokens |-> i, output_tokens |-> o,
     cache_creation_input_tokens |-> cc, cache_read_input_tokens |-> cr]
JNoUsage(t) ==
    [t |-> t, input_tokens |-> JAbsent, output_tokens |-> JAbsent,
     cache_creation_input_tokens |-> JAbsent, cache_read_input_tokens |-> JAbsent]

GoodObj ==
    [id |-> JStr("msg_1"), model |-> JStr("m"), role |-> JStr("assistant"),
     content |-> JArr(<<Item(JStr("hi"))>>),
     stop_reason |-> JStr("end_turn"), stop_sequence |-> JNull,
     usage |-> JUsage(JInt(10), JInt(5), JAbsent, JAbsent)]

\* a body that is a JSON object, a body that is a JSON array of the seven
\* members in declaration order, and a body that is any other text
ObjBody(o)  == [kind |-> "object", raw |-> "", obj |-> o]
ArrBody(o)  == [kind |-> "array", raw |-> "", obj |-> o]
TextBody(s) == [kind |-> "text", raw |-> s, obj |-> GoodObj]
NoBody      == [kind |-> "none", raw |-> "", obj |-> GoodObj]

(* ---------------------------------------------------------------------- *)
(* serde: Deserialize for AnthropicResponse                                *)
(* ---------------------------------------------------------------------- *)
\* String
DeStringOk(j) == j.t = "str"
\* Option<String>: a missing member and null are both None
DeOptStringOk(j) == j.t \in {"str", "null", "absent"}
DeOptString(j) == IF j.t = "str" THEN [some |-> TRUE, v |-> j.s]
                                 ELSE [some |-> FALSE, v |-> ""]
\* i32: any integer literal in range, negative ones included
DeI32Ok(j) == j.t = "int"

\* serde_json reads a struct from a map or from a sequence of its members
DeItemOk(it) == DeStringOk(it.text)
DeContentOk(j) == /\ j.t = "arr"
                  /\ \A k \in 1..Len(j.items) : DeItemOk(j.items[k])
DeContent(j) == [k \in 1..Len(j.items) |-> [text |-> j.items[k].text.s]]

\* in a map, members the struct does not name (the cache counters) are
\* ignored; in a sequence, elements beyond the struct's members are an error
DeUsageOk(j) == /\ j.t \in {"obj", "arr"}
                /\ DeI32Ok(j.input_tokens)
                /\ DeI32Ok(j.output_tokens)
                /\ j.t = "arr" => /\ j.cache_creation_input_tokens.t = "absent"
                                  /\ j.cache_read_input_tokens.t = "absent"
DeUsage(j) == [input_tokens |-> j.input_tokens.n,
               output_tokens |-> j.output_tokens.n]

DeResponseOk(o) ==
    /\ DeStringOk(o.id)
    /\ DeStringOk(o.model)
    /\ DeStringOk(o.role)
    /\ DeContentOk(o.content)
    /\ DeStringOk(o.stop_reason)
    /\ DeOptStringOk(o.stop_sequence)
    /\ DeUsageOk(o.usage)

AnthropicResponse(o) ==
    [id |-> o.id.s, model |-> o.model.s, role |-> o.role.s,
     content |-> DeContent(o.content),
     stop_reason |-> o.stop_reason.s,
     stop_sequence |-> DeOptString(o.stop_sequence),
     usage |-> DeUsage(o.usage)]

NoAnthropicResponse == AnthropicResponse(GoodObj)

\* serde_json::from_str::<AnthropicResponse>(&response_text)
from_str(text) ==
    IF \/ text.kind = "object" /\ DeResponseOk(text.obj)
       \/ text.kind = "array" /\ DeResponseOk(text.obj)
                              /\ text.obj.stop_sequence.t # "absent"
    THEN [ok |-> TRUE, value |-> AnthropicResponse(text.obj), err |-> ""]
    ELSE [ok |-> FALSE, value |-> NoAnthropicResponse,
          err |-> IF text.kind \notin {"object", "array"} THEN "expected value"
                  ELSE "invalid type, invalid length or missing field"]


(* ---------------------------------------------------------------------- *)
(* Universes of inputs and of replies of the external collaborators        *)
(* ---------------------------------------------------------------------- *)
\* ProjectConfig values the constructor may load (api_key may be empty)
ApiKeys == {"", "sk-key"}
Models == {"claude"}
MaxOutputTokens == {1024}

None == [some |-> FALSE, v |-> ""]
Some(v) == [some |-> TRUE, v |-> v]

UserMsg == [role |-> "user", content |-> "hello"]

\* Tooler::get_tools_json results
ToolOk(json) == [ok |-> TRUE, json |-> json, err |-> ""]
ToolErr(e)   == [ok |-> FALSE, json |-> "", err |-> e]
NoTools      == [ok |-> FALSE, json |-> "", err |-> "not fetched"]
ToolReplies  == {ToolOk("[tool_a]"), ToolErr("key must be a string")}

\* transport failures
SendErrors == {"connect refused"}
BodyErrors == {"connection reset"}

\* HTTP statuses around the 2xx range
Statuses == {199, 200, 299, 300, 429}
ConcStatuses == {200, 429}

BadString == {JAbsent, JNull, JInt(7)}
ContentVariants ==
    { JNoArr("absent"), JNoArr("null"), JNoArr("str"),
      JArr(<<>>),
      JArr(<<Item(JStr("hi")), Item(JStr("there"))>>),
      JArr(<<Item(JStr("")), Item(JStr("there"))>>),
      JArr(<<Item(JAbsent)>>),
      JArr(<<Item(JInt(7))>>),
      JArr(<<Item(JStr("hi")), Item(JAbsent)>>),
      JArr(<<ItemArr(JStr("hi"))>>),
      JArr(<<ItemArr(JAbsent)>>) }
UsageVariants ==
    { JNoUsage("absent"), JNoUsage("null"), JNoUsage("str"),
      JUsage(JAbsent, JInt(5), JAbsent, JAbsent),
      JUsage(JInt(10), JAbsent, JAbsent, JAbsent),
      JUsage(JStr("10"), JInt(5), JAbsent, JAbsent),
      JUsage(JInt(10), JNull, JAbsent, JAbsent),
      JUsage(JBig, JInt(5), JAbsent, JAbsent),
      JUsage(JInt(0), JInt(0), JAbsent, JAbsent),
      JUsage(JInt(5), JInt(10), JAbsent, JAbsent),
      JUsage(JInt(-1), JInt(5), JAbsent, JAbsent),
      JUsage(JInt(10), JInt(-3), JAbsent, JAbsent),
      JUsage(JInt(10), JInt(5), JInt(7), JInt(9)),
      JUsageArr(JInt(10), JInt(5), JAbsent, JAbsent),
      JUsageArr(JInt(10), JAbsent, JAbsent, JAbsent),
      JUsageArr(JInt(10), JInt(5), JInt(7), JAbsent) }

ObjBodies ==
    {GoodObj}
    \cup {[GoodObj EXCEPT !.id = j] : j \in BadString}
    \cup {[GoodObj EXCEPT !.model = j] : j \in BadString}
    \cup {[GoodObj EXCEPT !.role = j] : j \in BadString}
    \cup {[GoodObj EXCEPT !.stop_reason = j] : j \in BadString}
    \cup {[GoodObj EXCEPT !.stop_sequence = j] : j \in {JAbsent, JStr("END"), JInt(7)}}
    \cup {[GoodObj EXCEPT !.content = j] : j \in ContentVariants}
    \cup {[GoodObj EXCEPT !.usage = j] : j \in UsageVariants}

Bodies == {ObjBody(o) : o \in ObjBodies}
          \cup {ArrBody(GoodObj), ArrBody([GoodObj EXCEPT !.id = JNull]),
                ArrBody([GoodObj EXCEPT !.stop_sequence = JAbsent])}
          \cup {TextBody(""), TextBody("rate limited")}

ConcBodies == {ObjBody(GoodObj), TextBody("rate limited")}


(* ---------------------------------------------------------------------- *)
(* Results                                                                 *)
(* ---------------------------------------------------------------------- *)
NoModelResponse ==
    [content |-> <<>>, id |-> "", model |-> "", role |-> "", message_type |-> "",
     stop_reason |-> "", stop_sequence |-> None,
     usage |-> [input_tokens |-> 0, cache_creation_input_tokens |-> 0,
                cache_read_input_tokens |-> 0, output_tokens |-> 0]]

Pending == [tag |-> "Pending", kind |-> "", status |-> 0, msg |-> "",
            body |-> NoBody, value |-> NoModelResponse]
Ok(v) == [tag |-> "Ok", kind |-> "", status |-> 0, msg |-> "",
          body |-> NoBody, value |-> v]
MissingApiKey(m) == [tag |-> "Err", kind |-> "MissingApiKey", status |-> 0,
                     msg |-> m, body |-> NoBody, value |-> NoModelResponse]
SerializationError(m) == [tag |-> "Err", kind |-> "SerializationError", status |-> 0,
                          msg |-> m, body |-> NoBody, value |-> NoModelResponse]
NetworkError(m) == [tag |-> "Err", kind |-> "NetworkError", status |-> 0,
                    msg |-> m, body |-> NoBody, value |-> NoModelResponse]
ApiError(st, b) == [tag |-> "Err", kind |-> "ApiError", status |-> st,
                    msg |-> "", body |-> b, value |-> NoModelResponse]
InvalidResponse(m) == [tag |-> "Err", kind |-> "InvalidResponse", status |-> 0,
                       msg |-> m, body |-> NoBody, value |-> NoModelResponse]

\* the two awaited transport results, before the ? operator is applied
NoResponse == [ok |-> FALSE, status |-> 0, err |-> "not received"]
NoText     == [ok |-> FALSE, body |-> NoBody, err |-> "not received"]

NoArgs == [messages |-> <<>>, system_message |-> None]
Args == {[messages |-> <<>>, system_message |-> None],
         [messages |-> <<UserMsg>>, system_message |-> Some("be brief")]}

(* ---------------------------------------------------------------------- *)
(* Pure steps of query_model                                               *)
(* ---------------------------------------------------------------------- *)
\* variant: the API-key guard is missing
is_empty_unguarded(s) == FALSE

\* String::is_empty on the API key
is_empty(s) == s = ""

\* system_message.unwrap_or("")
unwrap_or_empty(o) == IF o.some THEN o.v ELSE ""

\* variant: the upper end of the success range is off by one
is_success_upto300(st) == st >= 200 /\ st <= 300

\* StatusCode::is_success: 2xx
is_success(st) == st >= 200 /\ st < 300

\* the POST that is handed to the transport
AnthropicRequest(cl, a, tl) ==
    [url |-> <<cl.base_url, "/messages">>,
     headers |-> [content_type |-> "application/json",
                  x_api_key |-> cl.api_key,
                  anthropic_version |-> "2023-06-01"],
     json |-> [model |-> cl.model,
               messages |-> a.messages,
               max_tokens |-> cl.max_output_tokens,
               tools |-> tl.json,
               system |-> unwrap_or_empty(a.system_message)]]

\* variant: the last content item is taken instead of the first
LastText(content) == IF Len(content) > 0 THEN content[Len(content)].text ELSE ""

\* content.first().map(|item| item.text.clone()).unwrap_or_default()
FirstText(content) == IF Len(content) > 0 THEN content[1].text ELSE ""

\* variant: the two token counters are exchanged
NormalizeSwapped(r) ==
    [content |-> << [type |-> "Text", text |-> FirstText(r.content)] >>,
     id |-> r.id,
     model |-> r.model,
     role |-> r.role,
     message_type |-> "text",
     stop_reason |-> r.stop_reason,
     stop_sequence |-> r.stop_sequence,
     usage |-> [input_tokens |-> r.usage.output_tokens,
                cache_creation_input_tokens |-> 0,
                cache_read_input_tokens |-> 0,
                output_tokens |-> r.usage.input_tokens]]

\* the ModelResponse built from a parsed AnthropicResponse
Normalize(r) ==
    [content |-> << [type |-> "Text", text |-> FirstText(r.content)] >>,
     id |-> r.id,
     model |-> r.model,
     role |-> r.role,
     message_type |-> "text",
     stop_reason |-> r.stop_reason,
     stop_sequence |-> r.stop_sequence,
     usage |-> [input_tokens |-> r.usage.input_tokens,
                cache_creation_input_tokens |-> 0,
                cache_read_input_tokens |-> 0,
                output_tokens |-> r.usage.output_tokens]]

\* the body of query_model read top to bottom, given the collaborators' replies
Outcome(cl, tl, rsp, txt) ==
    IF is_empty(cl.api_key) THEN MissingApiKey("Anthropic API key not found")
    ELSE IF ~tl.ok THEN SerializationError(tl.err)
    ELSE IF ~rsp.ok THEN NetworkError(rsp.err)
    ELSE IF ~txt.ok THEN NetworkError(txt.err)
    ELSE IF ~is_success(rsp.status) THEN ApiError(rsp.status, txt.body)
    ELSE IF ~from_str(txt.body).ok THEN InvalidResponse(from_str(txt.body).err)
    ELSE Ok(Normalize(from_str(txt.body).value))

(* ---------------------------------------------------------------------- *)
(* State                                                                   *)
(* ---------------------------------------------------------------------- *)
VARIABLES
    client,         \* the AnthropicInference: model, base_url, api_key, max_output_tokens
    pc,             \* where each call is in query_model
    args,           \* each call's messages and system_message
    tools,          \* each call's result of tooler.get_tools_json()
    toolCalls,      \* how many times each call asked the tool provider
    sent,           \* the requests each call handed to the transport
    response,       \* each call's result of send().await
    response_text,  \* each call's result of response.text().await
    parses,         \* how many times each call ran serde_json::from_str
    result          \* what each call returned

vars == <<client, pc, args, tools, toolCalls, sent, response, response_text,
          parses, result>>

Terminal == {"Done", "Failed"}

Init ==
    /\ client \in [model : Models, base_url : {"https://api.anthropic.com/v1"},
                   api_key : ApiKeys, max_output_tokens : MaxOutputTokens]
    /\ pc = [c \in CallIds |-> "Idle"]
    /\ args = [c \in CallIds |-> NoArgs]
    /\ tools = [c \in CallIds |-> NoTools]
    /\ toolCalls = [c \in CallIds |-> 0]
    /\ sent = [c \in CallIds |-> <<>>]
    /\ response = [c \in CallIds |-> NoResponse]
    /\ response_text = [c \in CallIds |-> NoText]
    /\ parses = [c \in CallIds |-> 0]
    /\ result = [c \in CallIds |-> Pending]

\* return Err(e) / the ? operator
Fail(c, e) ==
    /\ pc' = [pc EXCEPT ![c] = "Failed"]
    /\ result' = [result EXCEPT ![c] = e]

\* the call and its API-key guard
Call(c, A) ==
    /\ pc[c] = "Idle"
    /\ \E a \in A : args' = [args EXCEPT ![c] = a]
    /\ IF is_empty(client.api_key)
       THEN Fail(c, MissingApiKey("Anthropic API key not found"))
       ELSE /\ pc' = [pc EXCEPT ![c] = "FetchTools"]
            /\ UNCHANGED result
    /\ UNCHANGED <<client, tools, toolCalls, sent, response, response_text, parses>>

\* variant: a failure of the tool provider is swallowed and the call goes on
FetchToolsLenient(c) ==
    /\ pc[c] = "FetchTools"
    /\ toolCalls' = [toolCalls EXCEPT ![c] = @ + 1]
    /\ \E r \in ToolReplies : tools' = [tools EXCEPT ![c] = r]
    /\ pc' = [pc EXCEPT ![c] = "Send"]
    /\ UNCHANGED <<client, args, sent, response, response_text, parses, result>>

\* self.tooler.get_tools_json().map_err(SerializationError)?
FetchTools(c) ==
    /\ pc[c] = "FetchTools"
    /\ toolCalls' = [toolCalls EXCEPT ![c] = @ + 1]
    /\ \E r \in ToolReplies :
         /\ tools' = [tools EXCEPT ![c] = r]
         /\ IF r.ok
            THEN /\ pc' = [pc EXCEPT ![c] = "Send"]
                 /\ UNCHANGED result
            ELSE Fail(c, SerializationError(r.err))
    /\ UNCHANGED <<client, args, sent, response, response_text, parses>>

\* build the request and hand it to the transport: .json(&request).send()
Send(c) ==
    /\ pc[c] = "Send"
    /\ sent' = [sent EXCEPT ![c] = Append(@, AnthropicRequest(client, args[c], tools[c]))]
    /\ pc' = [pc EXCEPT ![c] = "AwaitingHeaders"]
    /\ UNCHANGED <<client, args, tools, toolCalls, response, response_text, parses, result>>

\* send().await answers with the response head
RecvHeaders(c, S) ==
    /\ pc[c] = "AwaitingHeaders"
    /\ \E st \in S : response' = [response EXCEPT ![c] =
                                     [ok |-> TRUE, status |-> st, err |-> ""]]
    /\ pc' = [pc EXCEPT ![c] = "ReadingBody"]
    /\ UNCHANGED <<client, args, tools, toolCalls, sent, response_text, parses, result>>

\* variant: a failed send is retried once
SendFailRetry(c) ==
    /\ pc[c] = "AwaitingHeaders"
    /\ \E e \in SendErrors :
         /\ response' = [response EXCEPT ![c] = [ok |-> FALSE, status |-> 0, err |-> e]]
         /\ IF Len(sent[c]) < 2
            THEN /\ pc' = [pc EXCEPT ![c] = "Send"]
                 /\ UNCHANGED result
            ELSE Fail(c, NetworkError(e))
    /\ UNCHANGED <<client, args, tools, toolCalls, sent, response_text, parses>>

\* send().await fails
SendFail(c) ==
    /\ pc[c] = "AwaitingHeaders"
    /\ \E e \in SendErrors :
         /\ response' = [response EXCEPT ![c] = [ok |-> FALSE, status |-> 0, err |-> e]]
         /\ Fail(c, NetworkError(e))
    /\ UNCHANGED <<client, args, tools, toolCalls, sent, response_text, parses>>

\* response.text().await answers; then the status check
RecvBody(c, B) ==
    /\ pc[c] = "ReadingBody"
    /\ \E b \in B :
         /\ response_text' = [response_text EXCEPT ![c] =
                                 [ok |-> TRUE, body |-> b, err |-> ""]]
         /\ IF ~is_success(response[c].status)
            THEN Fail(c, ApiError(response[c].status, b))
            ELSE /\ pc' = [pc EXCEPT ![c] = "Parsing"]
                 /\ UNCHANGED result
    /\ UNCHANGED <<client, args, tools, toolCalls, sent, response, parses>>

\* variant: the status is checked before the body is read
BodyFailStatusFirst(c) ==
    /\ pc[c] = "ReadingBody"
    /\ \E e \in BodyErrors :
         /\ response_text' = [response_text EXCEPT ![c] =
                                 [ok |-> FALSE, body |-> NoBody, err |-> e]]
         /\ IF ~is_success(response[c].status)
            THEN Fail(c, ApiError(response[c].status, NoBody))
            ELSE Fail(c, NetworkError(e))
    /\ UNCHANGED <<client, args, tools, toolCalls, sent, response, parses>>

\* response.text().await fails
BodyFail(c) ==
    /\ pc[c] = "ReadingBody"
    /\ \E e \in BodyErrors :
         /\ response_text' = [response_text EXCEPT ![c] =
                                 [ok |-> FALSE, body |-> NoBody, err |-> e]]
         /\ Fail(c, NetworkError(e))
    /\ UNCHANGED <<client, args, tools, toolCalls, sent, response, parses>>

\* variant: the response text is kept in one buffer shared by all calls
ParseShared(c) ==
    /\ pc[c] = "Parsing"
    /\ parses' = [parses EXCEPT ![c] = @ + 1]
    /\ LET r == from_str(response_text[1].body) IN
         IF r.ok
         THEN /\ pc' = [pc EXCEPT ![c] = "Done"]
              /\ result' = [result EXCEPT ![c] = Ok(Normalize(r.value))]
         ELSE Fail(c, InvalidResponse(r.err))
    /\ UNCHANGED <<client, args, tools, toolCalls, sent, response, response_text>>

\* serde_json::from_str, then Ok(ModelResponse { .. })
Parse(c) ==
    /\ pc[c] = "Parsing"
    /\ parses' = [parses EXCEPT ![c] = @ + 1]
    /\ LET r == from_str(response_text[c].body) IN
         IF r.ok
         THEN /\ pc' = [pc EXCEPT ![c] = "Done"]
              /\ result' = [result EXCEPT ![c] = Ok(Normalize(r.value))]
         ELSE Fail(c, InvalidResponse(r.err))
    /\ UNCHANGED <<client, args, tools, toolCalls, sent, response, response_text>>

(* ---------------------------------------------------------------------- *)
(* Specifications                                                          *)
(* ---------------------------------------------------------------------- *)
\* SoloCalls calls, every reply of the universe
Next ==
    \/ \E c \in SoloIds : Call(c, Args)
    \/ \E c \in SoloIds : FetchTools(c)
    \/ \E c \in SoloIds : Send(c)
    \/ \E c \in SoloIds : RecvHeaders(c, Statuses)
    \/ \E c \in SoloIds : SendFail(c)
    \/ \E c \in SoloIds : RecvBody(c, Bodies)
    \/ \E c \in SoloIds : BodyFail(c)
    \/ \E c \in SoloIds : Parse(c)

Spec == Init /\ [][Next]_vars

\* NumCalls concurrent calls, a reduced universe of replies
ConcStep(c) ==
    \/ FetchTools(c)
    \/ Send(c)
    \/ RecvHeaders(c, ConcStatuses)
    \/ SendFail(c)
    \/ RecvBody(c, ConcBodies)
    \/ BodyFail(c)
    \/ Parse(c)

ConcNext ==
    \/ \E c \in ConcIds : Call(c, Args)
    \/ \E c \in ConcIds : ConcStep(c)

ConcSpec == Init /\ [][ConcNext]_vars

\* a call that was made is polled to completion and the transport answers or fails
LiveSpec == ConcSpec /\ \A c \in ConcIds : WF_vars(ConcStep(c))


(* ---------------------------------------------------------------------- *)
(* Properties                                                              *)
(* ---------------------------------------------------------------------- *)
Called(c) == pc[c] # "Idle"
Ended(c) == pc[c] \in Terminal
NonSuccess(st) == st < 200 \/ st > 299
\* the exchange completed: head and body were both received
Exchanged(c) == response[c].ok /\ response_text[c].ok

\* C1: a call on a client whose api_key is empty returns Err(MissingApiKey),
\* hands no request to the transport and never asks the tool provider, so a
\* failure of the tool provider is not what is reported.
C1_MissingApiKey ==
    \A c \in CallIds :
        (client.api_key = "" /\ Called(c)) =>
            /\ pc[c] = "Failed"
            /\ result[c].tag = "Err"
            /\ result[c].kind = "MissingApiKey"
            /\ Len(sent[c]) = 0
            /\ toolCalls[c] = 0

C1_Witness ==
    \E c \in CallIds :
        /\ client.api_key = ""
        /\ pc[c] = "Failed"
        /\ args[c].messages # <<>>
        /\ args[c].system_message.some

\* C2: when head and body were received and the status is not 2xx, the call
\* returns Err(ApiError(status, body)) with the received status and the
\* received body unchanged, and the body was never parsed.
C2_ApiErrorVerbatim ==
    \A c \in CallIds :
        (Exchanged(c) /\ NonSuccess(response[c].status)) =>
            /\ pc[c] = "Failed"
            /\ result[c].tag = "Err"
            /\ result[c].kind = "ApiError"
            /\ result[c].status = response[c].status
            /\ result[c].body = response_text[c].body
            /\ parses[c] = 0

C2_Witness ==
    \E c \in CallIds :
        /\ Exchanged(c)
        /\ response[c].status = 300
        /\ response_text[c].body = ObjBody(GoodObj)
        /\ result[c].kind = "ApiError"

\* the content items of the provider reply, as they stand in the body
ReplyItems(c) == response_text[c].body.obj.content.items

\* C3: a call that returns Ok returns exactly one content item, a Text, and
\* message_type "text"; the text is that of the reply's first content item,
\* or the empty string when the reply has no content item.
C3_OneTextItem ==
    \A c \in CallIds :
        result[c].tag = "Ok" =>
            /\ Len(result[c].value.content) = 1
            /\ result[c].value.content[1].type = "Text"
            /\ result[c].value.message_type = "text"
            /\ result[c].value.content[1].text =
                  IF Len(ReplyItems(c)) > 0 THEN ReplyItems(c)[1].text.s ELSE ""

C3_Witness ==
    \E c \in CallIds :
        /\ result[c].tag = "Ok"
        /\ Len(ReplyItems(c)) = 2
        /\ ReplyItems(c)[1].text.s = "hi"
        /\ ReplyItems(c)[2].text.s = "there"
        /\ result[c].value.content[1].text = "hi"

\* the response schema of the provider: which bodies do not match it
NotString(j) == j.t # "str"
NotI32(j) == j.t # "int"
SchemaMismatch(b) ==
    \/ b.kind # "object"
    \/ NotString(b.obj.id)
    \/ NotString(b.obj.model)
    \/ NotString(b.obj.role)
    \/ NotString(b.obj.stop_reason)
    \/ b.obj.stop_sequence.t \notin {"str", "null", "absent"}
    \/ b.obj.content.t # "arr"
    \/ \E k \in 1..Len(b.obj.content.items) :
          \/ b.obj.content.items[k].k # "obj"
          \/ NotString(b.obj.content.items[k].text)
    \/ b.obj.usage.t # "obj"
    \/ NotI32(b.obj.usage.input_tokens)
    \/ NotI32(b.obj.usage.output_tokens)

\* C4: when head and body were received, the status is 2xx and the body does
\* not match the response schema, the call never returns Ok and ends with
\* Err(InvalidResponse).
C4_InvalidResponse ==
    \A c \in CallIds :
        (Exchanged(c) /\ ~NonSuccess(response[c].status)
                      /\ SchemaMismatch(response_text[c].body)) =>
            /\ pc[c] \in {"Parsing", "Failed"}
            /\ pc[c] = "Failed" => /\ result[c].tag = "Err"
                                   /\ result[c].kind = "InvalidResponse"
                                   /\ parses[c] = 1

ReplyUsage(c) == response_text[c].body.obj.usage

\* C5: a call that returns Ok returns the reply's input_tokens and
\* output_tokens, and 0 for both cache counters, whatever the reply holds.
C5_UsageMapping ==
    \A c \in CallIds :
        result[c].tag = "Ok" =>
            /\ result[c].value.usage.input_tokens = ReplyUsage(c).input_tokens.n
            /\ result[c].value.usage.output_tokens = ReplyUsage(c).output_tokens.n
            /\ result[c].value.usage.cache_creation_input_tokens = 0
            /\ result[c].value.usage.cache_read_input_tokens = 0

C5_Witness ==
    \E c \in CallIds :
        /\ result[c].tag = "Ok"
        /\ ReplyUsage(c).cache_creation_input_tokens = JInt(7)
        /\ ReplyUsage(c).cache_read_input_tokens = JInt(9)
        /\ result[c].value.usage.input_tokens = 10
        /\ result[c].value.usage.output_tokens = 5

\* C6: in every ModelResponse returned, all four Usage counters are >= 0.
C6_UsageNonNegative ==
    \A c \in CallIds :
        result[c].tag = "Ok" =>
            /\ result[c].value.usage.input_tokens >= 0
            /\ result[c].value.usage.output_tokens >= 0
            /\ result[c].value.usage.cache_creation_input_tokens >= 0
            /\ result[c].value.usage.cache_read_input_tokens >= 0

\* C7: with a non-empty api_key, a failure of get_tools_json ends the call
\* with Err(SerializationError) carrying the provider's message and nothing
\* is sent; the tool provider is asked once, only after the API-key guard
\* passed, and before any request is built or sent.
C7_ToolFailure ==
    \A c \in CallIds :
        /\ toolCalls[c] <= 1
        /\ toolCalls[c] > 0 => client.api_key # ""
        /\ pc[c] = "FetchTools" => (toolCalls[c] = 0 /\ Len(sent[c]) = 0)
        /\ Len(sent[c]) > 0 => (toolCalls[c] = 1 /\ tools[c].ok)
        /\ (client.api_key # "" /\ toolCalls[c] = 1 /\ ~tools[c].ok) =>
              /\ pc[c] = "Failed"
              /\ result[c] = SerializationError(tools[c].err)
              /\ Len(sent[c]) = 0

C7_Witness ==
    \E c \in CallIds :
        /\ client.api_key # ""
        /\ toolCalls[c] = 1
        /\ tools[c] = ToolErr("key must be a string")
        /\ result[c].kind = "SerializationError"

\* C8: once the request was sent, a failure of the send or of the body read
\* ends the call with Err(NetworkError); this holds for every status, and
\* ApiError is returned only with the full body text.
C8_NetworkError ==
    \A c \in CallIds :
        /\ (Len(sent[c]) > 0 /\ Ended(c) /\ ~response[c].ok) =>
              result[c] = NetworkError(response[c].err)
        /\ (response[c].ok /\ Ended(c) /\ ~response_text[c].ok) =>
              result[c] = NetworkError(response_text[c].err)
        /\ result[c].kind = "ApiError" =>
              (response_text[c].ok /\ result[c].body = response_text[c].body)

C8_Witness ==
    \E c \in CallIds :
        /\ Len(sent[c]) = 1
        /\ response[c].ok
        /\ response[c].status = 429
        /\ ~response_text[c].ok
        /\ result[c] = NetworkError("connection reset")


\* everything a call owns
Local(c) == <<pc[c], args[c], tools[c], toolCalls[c], sent[c], response[c],
              response_text[c], parses[c], result[c]>>

C9_Independent ==
    \A c \in CallIds :
        /\ Len(sent[c]) <= 1
        /\ Len(sent[c]) = 1 => sent[c][1] = AnthropicRequest(client, args[c], tools[c])
        /\ Ended(c) => result[c] = Outcome(client, tools[c], response[c], response_text[c])
        /\ ~Ended(c) => result[c] = Pending

C9_OwnStateOnly ==
    /\ client' = client
    /\ \A c, d \in CallIds : (c # d /\ Local(c)' # Local(c)) => Local(d)' = Local(d)

\* C9: with calls running concurrently on one client, under every
\* interleaving, each call's result is the function of the client
\* configuration and of the replies to that call alone, a step of one call
\* changes no other call's state nor the client, and each call sends at most
\* one request, built from its own arguments.
C9_ConcurrentCalls == []C9_Independent /\ [][C9_OwnStateOnly]_vars

C9_Witness ==
    \E c, d \in CallIds :
        /\ c # d
        /\ pc[c] = "Done"
        /\ args[c] # args[d]
        /\ pc[d] = "Failed"
        /\ result[d].kind = "ApiError"
        /\ Len(sent[c]) = 1
        /\ Len(sent[d]) = 1

\* the phases of the specification's state machine
Phase(c) == IF pc[c] \in {"Idle", "FetchTools", "Send"} THEN "Idle" ELSE pc[c]
Rank(ph) == CASE ph = "Idle" -> 0
              [] ph = "AwaitingHeaders" -> 1
              [] ph = "ReadingBody" -> 2
              [] ph = "Parsing" -> 3
              [] OTHER -> 4
ErrorKinds == {"MissingApiKey", "SerializationError", "NetworkError",
               "ApiError", "InvalidResponse"}

C10_PhaseStep ==
    \A c \in CallIds :
        /\ Phase(c)' # Phase(c) =>
              \/ Phase(c) \notin Terminal /\ Phase(c)' = "Failed"
              \/ Phase(c) = "Parsing" /\ Phase(c)' = "Done"
              \/ /\ Phase(c)' \notin Terminal
                 /\ Rank(Phase(c)') = Rank(Phase(c)) + 1
        /\ Ended(c) => (pc'[c] = pc[c] /\ result'[c] = result[c])
        /\ Len(sent'[c]) > Len(sent[c]) => Len(sent[c]) = 0

C10_Outcome ==
    \A c \in CallIds :
        /\ Len(sent[c]) <= 1
        /\ pc[c] = "Done" =>
              /\ result[c].tag = "Ok"
              /\ parses[c] = 1
              /\ Exchanged(c)
              /\ ~NonSuccess(response[c].status)
              /\ from_str(response_text[c].body).ok
              /\ Len(result[c].value.content) = 1
              /\ result[c].value.message_type = "text"
        /\ pc[c] = "Failed" =>
              /\ result[c].tag = "Err"
              /\ result[c].kind \in ErrorKinds
              /\ result[c].value = NoModelResponse
        /\ ~Ended(c) => result[c].tag = "Pending"

C10_Terminates == \A c \in ConcIds : Called(c) ~> Ended(c)

\* C10: a call goes through Idle, AwaitingHeaders, ReadingBody, Parsing in
\* that order, one phase at a time and never back, and ends in Done with a
\* normalized ModelResponse or in Failed with one of the five errors; Done is
\* entered only from Parsing on a 2xx body that parsed, a request
\* is sent at most once, an ended call stays as it is, and a call that was
\* made eventually ends.
C10_Lifecycle == []C10_Outcome /\ [][C10_PhaseStep]_vars /\ C10_Terminates

C10_Witness ==
    \E c, d \in CallIds :
        /\ c # d
        /\ pc[c] = "Done"
        /\ parses[c] = 1
        /\ pc[d] = "Failed"
        /\ result[d].kind = "NetworkError"

====
